---- MODULE Spec2Model ----
(***************************************************************************)
(* Model of reversal_bot.py: the shared `tokens` dict, the persisted file, *)
(* the price_monitor_loop thread and the telegram_loop/handle_command      *)
(* thread.                                                                 *)
(*                                                                         *)
(* Steps.  A thread's step is one access to the shared dict together with  *)
(* the thread-local computation and the network call that precede it; the  *)
(* other thread can run between any two steps, which covers every point    *)
(* at which a thread blocks on the network.  In Spec, SpecSeq and          *)
(* SpecScenario save_tokens() is taken together with the mutation it       *)
(* follows; SpecPersist takes the mutation, the open, the dump and the     *)
(* close of save_tokens() as separate steps, together with the start and   *)
(* the death of the process.                                               *)
(*                                                                         *)
(* Values.                                                                 *)
(*   - `tokens` (an insertion-ordered dict) is a sequence of entries       *)
(*     [ca, rec].                                                          *)
(*   - list(tokens.items()) holds references to the record dicts.  An item *)
(*     of the list is [ca, data, same]: data is the content of the dict    *)
(*     the item refers to and `same` tells whether that dict is still the  *)
(*     one stored under ca.  It stops being so when tokens[ca] is deleted: *)
(*     a later /add stores a new dict.  While `same` holds, data equals    *)
(*     tokens[ca]: the only writer of a stored dict is the tick itself,    *)
(*     when it processes that item.                                        *)
(*   - prices are non-negative integers (a fixed-point scaling of USD);    *)
(*     the gain test is evaluated in exact arithmetic.                     *)
(*   - addresses and matchers are sequences of characters.                 *)
(*   - the content of DATA_FILE is a sequence of JSON lexemes.             *)
(*   - locals of a handler are reset when the handler returns.             *)
(***************************************************************************)
EXTENDS Integers, Sequences, FiniteSets, TLC

\* ------------------------------------------------------------------ bounds
MaxPrice == 2

\* ------------------------------------------------------------------ inputs
CAs == {<<1, 2>>, <<1, 3>>}
Matchers == {<<1>>, <<3>>, <<1, 2>>, <<2, 2>>}
Prices == 0..MaxPrice
Num(v) == [num |-> TRUE, val |-> v]
NotANumber == [num |-> FALSE, val |-> 0]
PercentTexts == {Num(-50), Num(100), NotANumber}
\* datetime.now() at /add
Times == {"t"}
Users == {"owner", "stranger"}
ALLOWED_USER_ID == "owner"

None == [some |-> FALSE, price |-> 0]
Quote(p) == [some |-> TRUE, price |-> p]
\* get_token_price: None on an HTTP error, on an empty `pairs` list or on a
\* priceUsd that float() rejects; otherwise the price, 0.0 when priceUsd is
\* missing from the pair.
QuoteOutcomes == {None} \cup {Quote(p) : p \in Prices}
NameOf(ca) == <<"name">> \o ca
SymbolOf(ca) == <<"sym">> \o ca

\* the two threads of the process
Threads == {"monitor", "telegram"}

VARIABLES
    tokens,             \* the global dict: sequence of [ca, rec]
    file,               \* DATA_FILE: [exists, content]
    mpc,                \* price_monitor_loop: position
    snapshot,           \* remaining items of list(tokens.items())
    tokens_to_remove,   \* the tick's list; consumed from the head on removal
    tpc,                \* handle_command: position
    t_ca,               \* ca / found_ca of the command in progress
    t_arg,              \* ca_to_remove of the /remove in progress
    t_pct,              \* target_percent of the /add in progress
    reply,              \* the last send_telegram_message: "denied", "already_tracking",
                        \* "not_found", or "other" for every other text
    delivered,          \* per stored record: a Pushover alert was delivered for it
    firedNow,           \* stored records whose reversal test held in this tick
    sentNow,            \* stored records alerted (delivered) in this tick
    seed,               \* per audited address: the price its record was created with
    minSeen,            \* per audited address: min of the seed and the prices fetched
    feed,               \* DexScreener: [any, script]; any = every answer is possible,
                        \* otherwise the answers come from the script in order
    log,                \* scripted runs: the fetches made, [ca, q, did]
    sv,                 \* per thread: the save_tokens() in progress, [pc, buf, of]
    up,                 \* main(): "down", "loaded" (after load_tokens), "running"
    synced,             \* the last mapping DATA_FILE held in full
    writeFailed         \* a save_tokens() ended in its except clause

vars == <<tokens, file, mpc, snapshot, tokens_to_remove, tpc, t_ca, t_arg, t_pct, reply,
          delivered, firedNow, sentNow, seed, minSeen, feed, log,
          sv, up, synced, writeFailed>>

monitorVars == <<mpc, snapshot, tokens_to_remove>>
telegramVars == <<tpc, t_ca, t_arg, t_pct, reply>>
historyVars == <<delivered, firedNow, sentNow, seed, minSeen>>
scriptVars == <<feed, log>>
persistVars == <<sv, up, synced, writeFailed>>

\* ------------------------------------------------------------ dict helpers
Min(a, b) == IF a < b THEN a ELSE b
\* a history f takes v at ca if it is kept for ca
Keep(f, ca, v) == IF ca \in DOMAIN f THEN [f EXCEPT ![ca] = v] ELSE f
Keys(toks) == {toks[i].ca : i \in DOMAIN toks}
Has(toks, ca) == ca \in Keys(toks)
IndexOf(toks, ca) == CHOOSE i \in DOMAIN toks : toks[i].ca = ca
\* tokens[ca]
Get(toks, ca) == toks[IndexOf(toks, ca)].rec
\* tokens[ca] = rec
DictSet(toks, ca, rec) ==
    IF Has(toks, ca)
    THEN [toks EXCEPT ![IndexOf(toks, ca)].rec = rec]
    ELSE Append(toks, [ca |-> ca, rec |-> rec])
\* del tokens[ca]
DictDel(toks, ca) == SelectSeq(toks, LAMBDA e : e.ca # ca)
\* list(tokens.items())
Items(toks) == [i \in DOMAIN toks |-> [ca |-> toks[i].ca, data |-> toks[i].rec, same |-> TRUE]]
\* the items of the list whose dict left `tokens` with the deletion of ca
Detach(snap, ca) == [i \in DOMAIN snap |-> IF snap[i].ca = ca THEN [snap[i] EXCEPT !.same = FALSE]
                                           ELSE snap[i]]
\* the dict /add stores under ca
NewRecord(ca, pct, price, t) ==
    [target_percent |-> pct,
     local_bottom |-> price,
     added_at |-> t,
     name |-> NameOf(ca),
     symbol |-> SymbolOf(ca)]

\* ------------------------------------------------------------------- JSON
\* the lexemes of json.dump(tokens, f): an object of address keys, each with
\* the object of the record's five fields, written in the dict's order
Open == [t |-> "{"]
Close == [t |-> "}"]
KeyLex(ca) == [t |-> "key", ca |-> ca]
ValLex(rec) == [t |-> "val",
                fields |-> <<rec.target_percent, rec.local_bottom, rec.added_at,
                             rec.name, rec.symbol>>]
RECURSIVE DumpItems(_)
DumpItems(toks) ==
    IF toks = <<>> THEN <<>>
    ELSE <<KeyLex(Head(toks).ca), ValLex(Head(toks).rec)>> \o DumpItems(Tail(toks))
Dump(toks) == <<Open>> \o DumpItems(toks) \o <<Close>>

\* what json.load accepts: one object, keys and values in turn
WellFormed(text) ==
    /\ Len(text) >= 2
    /\ Len(text) % 2 = 0
    /\ text[1] = Open
    /\ text[Len(text)] = Close
    /\ \A i \in 2..(Len(text) - 1) : text[i].t = (IF i % 2 = 0 THEN "key" ELSE "val")
RecordOf(lex) ==
    [target_percent |-> lex.fields[1],
     local_bottom |-> lex.fields[2],
     added_at |-> lex.fields[3],
     name |-> lex.fields[4],
     symbol |-> lex.fields[5]]
RECURSIVE ParseItems(_, _)
ParseItems(items, acc) ==
    IF items = <<>> THEN acc
    ELSE ParseItems(Tail(Tail(items)), DictSet(acc, items[1].ca, RecordOf(items[2])))
\* the entries read in the opposite order
Parse_Reversed(text) ==
    LET toks == ParseItems(SubSeq(text, 2, Len(text) - 1), <<>>)
    IN  [i \in DOMAIN toks |-> toks[Len(toks) + 1 - i]]
\* json.load(f) on an accepted text: a dict in the order of the text
Parse(text) == ParseItems(SubSeq(text, 2, Len(text) - 1), <<>>)

\* save_tokens: open(DATA_FILE, 'w'); json.dump(tokens, f, indent=2); close
save_tokens(toks) == [exists |-> TRUE, content |-> Dump(toks)]
\* load_tokens: tokens stays {} without a file; json.load raising gives {}
load_tokens(f) ==
    IF ~f.exists THEN <<>>
    ELSE IF WellFormed(f.content) THEN Parse(f.content) ELSE <<>>
\* a buffer flushed at offset 0 of a file another handle has written since
Overlay(old, buf) == buf \o SubSeq(old, Len(buf) + 1, Len(old))

\* ------------------------------------------------------- string matching
StartsWith(s, p) == Len(p) <= Len(s) /\ SubSeq(s, 1, Len(p)) = p
Contains(s, p) == \E i \in 0..(Len(s) - Len(p)) : SubSeq(s, i + 1, i + Len(p)) = p
\* a test every address passes
Matches_Always(ca, m) == TRUE
Matches(ca, m) == StartsWith(ca, m) \/ Contains(ca, m)
MatchIdx(toks, m) == {i \in DOMAIN toks : Matches(toks[i].ca, m)}
\* the for/break loop of /remove: first match in dict order
FirstMatch(toks, m) ==
    LET I == MatchIdx(toks, m)
    IN  toks[CHOOSE i \in I : \A j \in I : i <= j].ca

\* ------------------------------------------------------ monitor decisions
\* the comparison the other way round
IsLower_Reversed(cp, lb) == cp > lb
\* if current_price < local_bottom
IsLower(cp, lb) == cp < lb
\* the gain has to exceed the target
Reversed_Strict(cp, lb, tp) == lb > 0 /\ (cp - lb) * 100 > tp * lb
\* if local_bottom > 0: percent_gain = (cp - lb) / lb * 100; percent_gain >= target
Reversed(cp, lb, tp) == lb > 0 /\ (cp - lb) * 100 >= tp * lb

\* the duplicate check left out
AlreadyTracking_Never(toks, ca) == FALSE
\* if ca in tokens   (the /add duplicate check)
AlreadyTracking(toks, ca) == Has(toks, ca)

\* the access check left out
Denied_Never(user) == FALSE
\* ALLOWED_USER_ID and str(user_id) != str(ALLOWED_USER_ID)
Denied(user) == ALLOWED_USER_ID # "" /\ user # ALLOWED_USER_ID

\* ------------------------------------------------------------ DexScreener
FreeFeed == [any |-> TRUE, script |-> <<>>]
Scripted(s) == [any |-> FALSE, script |-> s]
\* what the next get_token_price can return
Answers ==
    IF feed.any THEN QuoteOutcomes
    ELSE IF feed.script # <<>> THEN {Head(feed.script)} ELSE {}
\* the prices among them
Quoted ==
    IF feed.any THEN Prices
    ELSE IF feed.script # <<>> /\ Head(feed.script).some THEN {Head(feed.script).price} ELSE {}
\* get_token_price(ca) returns q; the caller goes on to do `what`
Fetch(ca, q, what) ==
    IF feed.any
    THEN /\ q \in QuoteOutcomes
         /\ UNCHANGED <<feed, log>>
    ELSE /\ feed.script # <<>>
         /\ q = Head(feed.script)
         /\ feed' = Scripted(Tail(feed.script))
         /\ log' = Append(log, [ca |-> ca, q |-> q, did |-> what])

\* ----------------------------------------------------------------- states
Idle == [pc |-> "idle", buf |-> <<>>, of |-> <<>>]

\* the process after load_tokens() found no file; the seed and minimum
\* histories are kept for the addresses in audited
InitAudit(audited) ==
    /\ tokens = <<>>
    /\ file = [exists |-> FALSE, content |-> <<>>]
    /\ mpc = "sleep"
    /\ snapshot = <<>>
    /\ tokens_to_remove = <<>>
    /\ tpc = "idle"
    /\ t_ca = <<>>
    /\ t_arg = <<>>
    /\ t_pct = 0
    /\ reply = "none"
    /\ delivered = [c \in CAs |-> FALSE]
    /\ firedNow = {}
    /\ sentNow = {}
    /\ seed = [c \in audited |-> 0]
    /\ minSeen = [c \in audited |-> 0]
    /\ feed = FreeFeed
    /\ log = <<>>
    /\ sv = [th \in Threads |-> Idle]
    /\ up = "running"
    /\ synced = <<>>
    /\ writeFailed = FALSE

Init == InitAudit({})

\* the history of the record stored under ca ends with its deletion
Forget(ca) ==
    /\ delivered' = [delivered EXCEPT ![ca] = FALSE]
    /\ firedNow' = firedNow \ {ca}
    /\ sentNow' = sentNow \ {ca}
    /\ seed' = Keep(seed, ca, 0)
    /\ minSeen' = Keep(minSeen, ca, 0)

\* ================================================= price_monitor_loop
\* where the for loop goes once the iteration over `rest` continues
AfterItem(rest, toRemove) ==
    IF rest # <<>> THEN "for"
    ELSE IF toRemove # <<>> THEN "remove" ELSE "sleep"

\* the price fetched for an item enters the history of its record
Seen(item, p) ==
    IF item.same /\ item.ca \in DOMAIN minSeen
    THEN [minSeen EXCEPT ![item.ca] = Min(@, p)]
    ELSE minSeen

\* tokens_to_remove = []; for ca, data in list(tokens.items()):
TickStart ==
    /\ mpc = "sleep"
    /\ snapshot' = Items(tokens)
    /\ tokens_to_remove' = <<>>
    /\ firedNow' = {}
    /\ sentNow' = {}
    /\ mpc' = AfterItem(tokens, <<>>)
    /\ UNCHANGED <<tokens, file, telegramVars, delivered, seed, minSeen>>
    /\ UNCHANGED <<scriptVars, persistVars>>

\* a failed fetch that ends the tick
FetchFailed_Abort ==
    /\ mpc = "for"
    /\ Fetch(Head(snapshot).ca, None, "failed")
    /\ snapshot' = <<>>
    /\ tokens_to_remove' = <<>>
    /\ mpc' = "sleep"
    /\ UNCHANGED <<tokens, file, telegramVars, historyVars, persistVars>>
\* get_token_price(ca) returns None: continue
FetchFailed ==
    /\ mpc = "for"
    /\ Fetch(Head(snapshot).ca, None, "failed")
    /\ snapshot' = Tail(snapshot)
    /\ mpc' = AfterItem(Tail(snapshot), tokens_to_remove)
    /\ UNCHANGED <<tokens, file, tokens_to_remove, telegramVars, historyVars, persistVars>>

\* current_price < local_bottom: tokens[ca]["local_bottom"] = current_price;
\* save_tokens(); continue.  A KeyError ends the tick in the loop's except
\* clause (the iterator and the removal list are dropped).
LowerBottomAt(p) ==
    /\ mpc = "for"
    /\ Fetch(Head(snapshot).ca, Quote(p), "lower")
    /\ LET item == Head(snapshot)
           lowered == DictSet(tokens, item.ca, [Get(tokens, item.ca) EXCEPT !.local_bottom = p])
       IN  /\ IsLower(p, item.data.local_bottom)
           /\ minSeen' = Seen(item, p)
           /\ IF Has(tokens, item.ca)
              THEN /\ tokens' = lowered
                   /\ file' = save_tokens(lowered)
                   /\ snapshot' = Tail(snapshot)
                   /\ mpc' = AfterItem(Tail(snapshot), tokens_to_remove)
                   /\ UNCHANGED tokens_to_remove
              ELSE /\ mpc' = "sleep"
                   /\ snapshot' = <<>>
                   /\ tokens_to_remove' = <<>>
                   /\ UNCHANGED <<tokens, file>>
    /\ UNCHANGED <<telegramVars, delivered, firedNow, sentNow, seed, persistVars>>

LowerBottom == \E p \in Quoted : LowerBottomAt(p)

\* percent_gain >= target_percent: send_pushover_alert(...);
\* tokens_to_remove.append(ca)
FireAlertAt(p) ==
    /\ mpc = "for"
    /\ Fetch(Head(snapshot).ca, Quote(p), "fire")
    /\ \E ok \in BOOLEAN :
        LET item == Head(snapshot)
        IN  /\ ~IsLower(p, item.data.local_bottom)
            /\ Reversed(p, item.data.local_bottom, item.data.target_percent)
            /\ minSeen' = Seen(item, p)
            /\ IF item.same
               THEN /\ firedNow' = firedNow \cup {item.ca}
                    /\ sentNow' = IF ok THEN sentNow \cup {item.ca} ELSE sentNow
                    /\ delivered' = [delivered EXCEPT ![item.ca] = @ \/ ok]
               ELSE UNCHANGED <<firedNow, sentNow, delivered>>
            /\ tokens_to_remove' = Append(tokens_to_remove, item.ca)
            /\ snapshot' = Tail(snapshot)
            /\ mpc' = AfterItem(Tail(snapshot), Append(tokens_to_remove, item.ca))
    /\ UNCHANGED <<tokens, file, telegramVars, seed, persistVars>>

FireAlert == \E p \in Quoted : FireAlertAt(p)

\* neither lower nor at the target (or local_bottom is 0): next item
NoChangeAt(p) ==
    /\ mpc = "for"
    /\ Fetch(Head(snapshot).ca, Quote(p), "none")
    /\ LET item == Head(snapshot)
       IN  /\ ~IsLower(p, item.data.local_bottom)
           /\ ~Reversed(p, item.data.local_bottom, item.data.target_percent)
           /\ minSeen' = Seen(item, p)
    /\ snapshot' = Tail(snapshot)
    /\ mpc' = AfterItem(Tail(snapshot), tokens_to_remove)
    /\ UNCHANGED <<tokens, file, tokens_to_remove, telegramVars,
                   delivered, firedNow, sentNow, seed, persistVars>>

NoChange == \E p \in Quoted : NoChangeAt(p)

\* symbol = tokens[ca].get(...); del tokens[ca]; save_tokens().
\* A KeyError ends the tick with the rest of the list unprocessed.
Remove ==
    /\ mpc = "remove"
    /\ LET ca == Head(tokens_to_remove)
       IN  IF Has(tokens, ca)
           THEN /\ tokens' = DictDel(tokens, ca)
                /\ file' = save_tokens(DictDel(tokens, ca))
                /\ tokens_to_remove' = Tail(tokens_to_remove)
                /\ mpc' = AfterItem(<<>>, Tail(tokens_to_remove))
                /\ Forget(ca)
           ELSE /\ mpc' = "sleep"
                /\ tokens_to_remove' = <<>>
                /\ UNCHANGED <<tokens, file, historyVars>>
    /\ UNCHANGED <<snapshot, telegramVars, scriptVars, persistVars>>

MonitorStep == TickStart \/ FetchFailed \/ LowerBottom \/ FireAlert \/ NoChange \/ Remove

\* ===================================================== handle_command
\* the access check at the head of every command
CmdDeniedBy(user) ==
    /\ tpc = "idle"
    /\ Denied(user)
    /\ reply' = "denied"
    /\ UNCHANGED <<tokens, file, monitorVars, tpc, t_ca, t_arg, t_pct, historyVars>>
    /\ UNCHANGED <<scriptVars, persistVars>>

CmdDenied == \E user \in Users : CmdDeniedBy(user)

\* /start, /status, an unknown command, /add or /remove with too few words
CmdInfoBy(user) ==
    /\ tpc = "idle"
    /\ ~Denied(user)
    /\ reply' = "other"
    /\ UNCHANGED <<tokens, file, monitorVars, tpc, t_ca, t_arg, t_pct, historyVars>>
    /\ UNCHANGED <<scriptVars, persistVars>>

CmdInfo == \E user \in Users : CmdInfoBy(user)

\* /list: read-only; the reply is lost when the dict changes size under the
\* iteration (RuntimeError, caught by telegram_loop).  Its fetches are not
\* drawn from a script: the scripted runs send no /list.
CmdListBy(user) ==
    /\ tpc = "idle"
    /\ ~Denied(user)
    /\ reply' \in {"other", reply}
    /\ UNCHANGED <<tokens, file, monitorVars, tpc, t_ca, t_arg, t_pct, historyVars>>
    /\ UNCHANGED <<scriptVars, persistVars>>

CmdList == \E user \in Users : CmdListBy(user)

\* /add CA PERCENT up to the "Fetching token info" message
CmdAddCheckBy(user) ==
    /\ tpc = "idle"
    /\ ~Denied(user)
    /\ \E ca \in CAs, text \in PercentTexts :
        IF ~text.num
        THEN /\ reply' = "other"
             /\ UNCHANGED <<tpc, t_ca, t_pct>>
        ELSE IF AlreadyTracking(tokens, ca)
        THEN /\ reply' = "already_tracking"
             /\ UNCHANGED <<tpc, t_ca, t_pct>>
        ELSE /\ reply' = "other"
             /\ tpc' = "add_fetch"
             /\ t_ca' = ca
             /\ t_pct' = text.val
    /\ UNCHANGED <<tokens, file, monitorVars, t_arg, historyVars>>
    /\ UNCHANGED <<scriptVars, persistVars>>

CmdAddCheck == \E user \in Users : CmdAddCheckBy(user)

\* token_info = get_token_price(ca); tokens[ca] = {...}; save_tokens()
CmdAddStore ==
    /\ tpc = "add_fetch"
    /\ \E q \in Answers :
        IF ~q.some
        THEN /\ Fetch(t_ca, q, "unknown")
             /\ reply' = "other"
             /\ UNCHANGED <<tokens, file, seed, minSeen>>
        ELSE \E t \in Times :
                LET rec == NewRecord(t_ca, t_pct, q.price, t)
                IN  /\ Fetch(t_ca, q, "add")
                    /\ tokens' = DictSet(tokens, t_ca, rec)
                    /\ file' = save_tokens(DictSet(tokens, t_ca, rec))
                    /\ seed' = Keep(seed, t_ca, q.price)
                    /\ minSeen' = Keep(minSeen, t_ca, q.price)
                    /\ reply' = "other"
    /\ tpc' = "idle"
    /\ t_ca' = <<>>
    /\ t_pct' = 0
    /\ UNCHANGED <<monitorVars, t_arg, delivered, firedNow, sentNow, persistVars>>

\* /remove CA with ca_to_remove = m: the search loop
CmdRemoveFindWith(user, m) ==
    /\ tpc = "idle"
    /\ ~Denied(user)
    /\ IF MatchIdx(tokens, m) = {}
       THEN /\ reply' = "not_found"
            /\ UNCHANGED <<tpc, t_ca, t_arg>>
       ELSE /\ t_ca' = FirstMatch(tokens, m)
            /\ t_arg' = m
            /\ tpc' = "remove_del"
            /\ UNCHANGED reply
    /\ UNCHANGED <<tokens, file, monitorVars, t_pct, historyVars>>
    /\ UNCHANGED <<scriptVars, persistVars>>

CmdRemoveFindBy(user) == \E m \in Matchers : CmdRemoveFindWith(user, m)

CmdRemoveFind == \E user \in Users : CmdRemoveFindBy(user)

\* symbol = tokens[found_ca].get(...); del tokens[found_ca]; save_tokens().
\* A KeyError is caught by telegram_loop and nothing is replied.
CmdRemoveDel ==
    /\ tpc = "remove_del"
    /\ IF Has(tokens, t_ca)
       THEN /\ tokens' = DictDel(tokens, t_ca)
            /\ file' = save_tokens(DictDel(tokens, t_ca))
            /\ snapshot' = Detach(snapshot, t_ca)
            /\ reply' = "other"
            /\ Forget(t_ca)
       ELSE UNCHANGED <<tokens, file, snapshot, reply, historyVars>>
    /\ tpc' = "idle"
    /\ t_ca' = <<>>
    /\ t_arg' = <<>>
    /\ UNCHANGED <<mpc, tokens_to_remove, t_pct, scriptVars, persistVars>>

\* handle_command(user, ...) is entered
Received(user) ==
    \/ CmdDeniedBy(user) \/ CmdInfoBy(user) \/ CmdListBy(user)
    \/ CmdAddCheckBy(user) \/ CmdRemoveFindBy(user)

TelegramStep ==
    \/ CmdDenied \/ CmdInfo \/ CmdList
    \/ CmdAddCheck \/ CmdAddStore
    \/ CmdRemoveFind \/ CmdRemoveDel

Next == MonitorStep \/ TelegramStep

Spec == Init /\ [][Next]_vars

\* commands handled only between ticks, ticks run only between commands
NextSeq == (tpc = "idle" /\ MonitorStep) \/ (mpc = "sleep" /\ TelegramStep)

\* the same start, with the histories kept for every address
InitSeq == InitAudit(CAs)

SpecSeq == InitSeq /\ [][NextSeq]_vars

\* ======================================================= scripted runs
\* the quotes of the reversal scenario in hundredths of a dollar: the seed
\* 1.00, then 0.90, 0.80, 1.05, 1.12
Scenario == <<100, 90, 80, 105, 112>>
ScenarioAsset == <<1, 2>>
OtherAsset == <<1, 3>>
ScriptAnswers == {None} \cup {Quote(Scenario[i]) : i \in DOMAIN Scenario}
Scripts == [DOMAIN Scenario -> ScriptAnswers]
\* a store holding OtherAsset, added with target 100 at price 1.00
OtherTracked == DictSet(<<>>, OtherAsset, NewRecord(OtherAsset, 100, Scenario[1], "t"))

\* "/add ScenarioAsset 40" has passed its checks and is about to fetch; the
\* store is empty or holds OtherAsset; DexScreener answers from a script
InitScenario ==
    /\ tokens \in {<<>>, OtherTracked}
    /\ file = IF tokens = <<>> THEN [exists |-> FALSE, content |-> <<>>]
                               ELSE save_tokens(tokens)
    /\ mpc = "sleep"
    /\ snapshot = <<>>
    /\ tokens_to_remove = <<>>
    /\ tpc = "add_fetch"
    /\ t_ca = ScenarioAsset
    /\ t_arg = <<>>
    /\ t_pct = 40
    /\ reply = "other"
    /\ delivered = [c \in CAs |-> FALSE]
    /\ firedNow = {}
    /\ sentNow = {}
    /\ seed = <<>>
    /\ minSeen = <<>>
    /\ feed \in {Scripted(s) : s \in Scripts}
    /\ log = <<>>
    /\ sv = [th \in Threads |-> Idle]
    /\ up = "running"
    /\ synced = <<>>
    /\ writeFailed = FALSE

\* no further command is sent
NextScenario == MonitorStep \/ CmdAddStore

SpecScenario == InitScenario /\ [][NextScenario]_vars

\* ==================================== main, load_tokens, save_tokens
botVars == <<monitorVars, telegramVars, historyVars, scriptVars>>
SavedPrices == {1, 2}
StoredA == DictSet(<<>>, <<1, 2>>, NewRecord(<<1, 2>>, 100, 2, "t"))
StoredAB == DictSet(StoredA, <<1, 3>>, NewRecord(<<1, 3>>, 100, 1, "t"))
StoredBA == DictSet(DictSet(<<>>, <<1, 3>>, NewRecord(<<1, 3>>, 100, 1, "t")),
                    <<1, 2>>, NewRecord(<<1, 2>>, 100, 2, "t"))
\* DATA_FILE when the process starts, with the mapping it holds in full:
\* no file, a file an earlier run saved, or a file cut short
Disks ==
    {[file |-> [exists |-> FALSE, content |-> <<>>], holds |-> <<>>]}
    \cup {[file |-> save_tokens(s), holds |-> s] : s \in {<<>>, StoredA, StoredAB, StoredBA}}
    \cup {[file |-> [exists |-> TRUE, content |-> SubSeq(Dump(StoredAB), 1, k)],
           holds |-> <<>>] : k \in 0..(Len(Dump(StoredAB)) - 1)}

InitPersist ==
    /\ tokens = <<>>
    /\ \E d \in Disks : file = d.file /\ synced = d.holds
    /\ mpc = "sleep"
    /\ snapshot = <<>>
    /\ tokens_to_remove = <<>>
    /\ tpc = "idle"
    /\ t_ca = <<>>
    /\ t_arg = <<>>
    /\ t_pct = 0
    /\ reply = "none"
    /\ delivered = [c \in CAs |-> FALSE]
    /\ firedNow = {}
    /\ sentNow = {}
    /\ seed = <<>>
    /\ minSeen = <<>>
    /\ feed = FreeFeed
    /\ log = <<>>
    /\ sv = [th \in Threads |-> Idle]
    /\ up = "down"
    /\ writeFailed = FALSE

\* no save_tokens() is in progress
Quiet == \A th \in Threads : sv[th].pc = "idle"

\* main(): load_tokens()
Start ==
    /\ up = "down"
    /\ tokens' = load_tokens(file)
    /\ up' = "loaded"
    /\ UNCHANGED <<file, sv, synced, writeFailed, botVars>>

\* main(): the monitor thread is started and telegram_loop entered
Launch ==
    /\ up = "loaded"
    /\ up' = "running"
    /\ UNCHANGED <<tokens, file, sv, synced, writeFailed, botVars>>

\* the process is killed; `tokens` keeps what the dict held until the next
\* start replaces it
Crash ==
    /\ up # "down"
    /\ up' = "down"
    /\ sv' = [th \in Threads |-> Idle]
    /\ writeFailed' = FALSE
    /\ UNCHANGED <<tokens, file, synced, botVars>>

\* the store is changed by th, which goes on to call save_tokens()
Mutate(th, toks) ==
    /\ up = "running"
    /\ sv[th].pc = "idle"
    /\ tokens' = toks
    /\ sv' = [sv EXCEPT ![th].pc = "open"]
    /\ UNCHANGED <<file, up, synced, writeFailed, botVars>>

\* /add: tokens[ca] = {...}
StoreAdd ==
    \E ca \in CAs \ Keys(tokens), p \in SavedPrices, t \in Times :
        Mutate("telegram", DictSet(tokens, ca, NewRecord(ca, 100, p, t)))

\* the tick: tokens[ca]["local_bottom"] = current_price
StoreLower ==
    \E ca \in Keys(tokens), p \in SavedPrices :
        /\ IsLower(p, Get(tokens, ca).local_bottom)
        /\ Mutate("monitor", DictSet(tokens, ca, [Get(tokens, ca) EXCEPT !.local_bottom = p]))

\* /remove, or the tick after an alert: del tokens[ca]
StoreRemove(th) ==
    \E ca \in Keys(tokens) : Mutate(th, DictDel(tokens, ca))

\* open(DATA_FILE, 'w') creates or truncates the file
SaveOpen(th) ==
    /\ sv[th].pc = "open"
    /\ file' = [exists |-> TRUE, content |-> <<>>]
    /\ sv' = [sv EXCEPT ![th].pc = "dump"]
    /\ UNCHANGED <<tokens, up, synced, writeFailed, botVars>>

\* open raises: except Exception: print
SaveFails(th) ==
    /\ sv[th].pc = "open"
    /\ sv' = [sv EXCEPT ![th] = Idle]
    /\ writeFailed' = TRUE
    /\ UNCHANGED <<tokens, file, up, synced, botVars>>

\* json.dump(tokens, f, indent=2) fills the buffer of the file object
SaveDump(th) ==
    /\ sv[th].pc = "dump"
    /\ sv' = [sv EXCEPT ![th] = [pc |-> "close", buf |-> Dump(tokens), of |-> tokens]]
    /\ UNCHANGED <<tokens, file, up, synced, writeFailed, botVars>>

\* the with block ends: the buffer is written at offset 0 and the file closed
SaveClose(th) ==
    /\ sv[th].pc = "close"
    /\ file' = [exists |-> TRUE, content |-> Overlay(file.content, sv[th].buf)]
    /\ synced' = IF Overlay(file.content, sv[th].buf) = sv[th].buf THEN sv[th].of ELSE synced
    /\ sv' = [sv EXCEPT ![th] = Idle]
    /\ UNCHANGED <<tokens, up, writeFailed, botVars>>

NextPersist ==
    \/ Start \/ Launch \/ Crash
    \/ StoreAdd \/ StoreLower
    \/ \E th \in Threads :
        StoreRemove(th) \/ SaveOpen(th) \/ SaveFails(th) \/ SaveDump(th) \/ SaveClose(th)

SpecPersist == InitPersist /\ [][NextPersist]_vars

\* ======================================================== properties

\* C1: at most one alert is delivered for a record between its creation and
\* its removal: no step delivers an alert for a stored record for which one
\* was delivered before.
C1_AtMostOneAlert ==
    [][\A ca \in sentNow' \ sentNow : ~delivered[ca]]_vars

\* C2: at the end of a tick no record for which an alert was delivered in
\* that tick is still stored.
C2_FiredNeverStays ==
    mpc = "sleep" => \A ca \in Keys(tokens) : ca \notin sentNow

\* C3: a record leaves `tokens` only by the /remove that found it or by the
\* tick in which the reversal test held on that very record.
C3_OnlyRemoveOrTrigger ==
    [][\A ca \in Keys(tokens) \ Keys(tokens') :
          \/ tpc = "remove_del" /\ t_ca = ca /\ tpc' = "idle"
          \/ mpc = "remove" /\ tpc' = tpc /\ ca \in firedNow]_vars

\* C4: no step raises the local_bottom of a stored record.
C4_BottomNeverRaised ==
    [][\A ca \in Keys(tokens) \cap Keys(tokens') :
          Get(tokens', ca).local_bottom <= Get(tokens, ca).local_bottom]_vars

\* C5: with commands handled only between ticks, the local_bottom of every
\* stored record is the minimum of its seed price and of the prices fetched
\* for it so far.
C5_BottomIsMin ==
    /\ \A ca \in Keys(tokens) : Get(tokens, ca).local_bottom = minSeen[ca]
    /\ \A ca \in Keys(tokens) : minSeen[ca] <= seed[ca]

\* a tick lowered the bottom of a stored record below its seed
C5_Witness ==
    \E ca \in Keys(tokens) : Get(tokens, ca).local_bottom < seed[ca]

\* C6: for every price the fetch for the current item can return, the tick
\* sends an alert if and only if the gain from the bottom reaches the target,
\* and it never both lowers the bottom and sends an alert.
C6_AlertIffGain ==
    mpc = "for" =>
        \A p \in Prices :
            LET data == Head(snapshot).data
            IN  data.local_bottom > 0 =>
                    /\ (ENABLED FireAlertAt(p))
                           <=> ((p - data.local_bottom) * 100
                                    >= data.target_percent * data.local_bottom)
                    /\ ~((ENABLED LowerBottomAt(p)) /\ (ENABLED FireAlertAt(p)))

\* C7: an /add of a tracked address is rejected and changes neither the
\* store nor the file; the add handler never stores under a tracked
\* address; each address keys at most one record.
C7_DuplicateRejected ==
    /\ [](\A i, j \in DOMAIN tokens : tokens[i].ca = tokens[j].ca => i = j)
    /\ [][(reply # "already_tracking" /\ reply' = "already_tracking")
            => (tokens' = tokens /\ file' = file /\ tpc' = "idle")]_vars
    /\ [][(tpc = "add_fetch" /\ tpc' = "idle")
            => (~Has(tokens, t_ca) /\ \A i \in DOMAIN tokens : tokens'[i] = tokens[i])]_vars

\* a duplicate /add was just rejected while a record is stored
C7_Witness ==
    reply = "already_tracking" /\ tokens # <<>> /\ tpc = "idle"

\* C8: every stored record has target_percent > 0.
C8_TargetPositive ==
    \A i \in DOMAIN tokens : tokens[i].rec.target_percent > 0

\* C9: every stored record has local_bottom > 0.
C9_BottomPositive ==
    \A i \in DOMAIN tokens : tokens[i].rec.local_bottom > 0

\* C10: a /remove whose matcher matches more than one stored address
\* removes nothing.
C10_AmbiguousRemovesNothing ==
    [][(tpc = "remove_del" /\ tpc' = "idle" /\ Cardinality(MatchIdx(tokens, t_arg)) > 1)
          => (tokens' = tokens /\ file' = file)]_vars

C12_ReversalScenario ==
    LET did == <<"add", "lower", "lower", "none", "fire">>
        bottom == <<100, 90, 80, 80>>
        n == Len(log)
    IN  (/\ n <= Len(Scenario)
         /\ Keys(tokens) \subseteq {ScenarioAsset}
         /\ \A i \in DOMAIN log :
               log[i].ca = ScenarioAsset /\ log[i].q = Quote(Scenario[i]))
        => /\ \A i \in DOMAIN log : log[i].did = did[i]
           /\ n \in 1..4 =>
                 /\ Has(tokens, ScenarioAsset)
                 /\ Get(tokens, ScenarioAsset).target_percent = 40
                 /\ Get(tokens, ScenarioAsset).local_bottom = bottom[n]
           /\ (n = 5 /\ mpc = "sleep") => tokens = <<>>
           /\ Cardinality({i \in DOMAIN log : log[i].did = "fire"})
                 = (IF n = 5 THEN 1 ELSE 0)

\* the scenario has run to its end: five fetches at the scenario's quotes, the
\* last one fired, the tick is over and the store is empty
C12_Witness ==
    /\ Len(log) = Len(Scenario)
    /\ \A i \in DOMAIN log : log[i].ca = ScenarioAsset /\ log[i].q = Quote(Scenario[i])
    /\ log[Len(log)].did = "fire"
    /\ mpc = "sleep"
    /\ tokens = <<>>

\* C13: the step of a tick whose fetch fails changes neither the store nor the
\* file, sends no alert and queues no removal, and the tick goes on with the
\* rest of its snapshot: the next item is up, or, the snapshot exhausted, the
\* removals queued so far; the items still to come refer to their stored
\* records as they were snapshotted.
C13_FetchFailureSkips ==
    /\ [][FetchFailed =>
            /\ tokens' = tokens
            /\ file' = file
            /\ tokens_to_remove' = tokens_to_remove
            /\ firedNow' = firedNow /\ sentNow' = sentNow /\ delivered' = delivered
            /\ snapshot' = Tail(snapshot)
            /\ mpc' = (IF Len(snapshot) > 1 THEN "for"
                       ELSE IF tokens_to_remove # <<>> THEN "remove" ELSE "sleep")]_vars
    /\ [](mpc = "for" =>
            /\ snapshot # <<>>
            /\ \A i \in DOMAIN snapshot :
                  /\ Has(tokens, snapshot[i].ca)
                  /\ Get(tokens, snapshot[i].ca) = snapshot[i].data)

\* in one tick the fetch for OtherAsset failed, its record is as it was added,
\* and ScenarioAsset, next in the snapshot, had its bottom lowered or fired
C13_Witness ==
    \E i \in DOMAIN log :
        /\ i < Len(log)
        /\ log[i].ca = OtherAsset /\ log[i].did = "failed"
        /\ log[i + 1].ca = ScenarioAsset /\ log[i + 1].did \in {"lower", "fire"}
        /\ Has(tokens, OtherAsset)
        /\ Get(tokens, OtherAsset) = Get(OtherTracked, OtherAsset)

\* C14: a start that follows the death of the process loads a mapping that
\* was stored in full: the one DATA_FILE last held completely (the state
\* before the save that was cut short) or the one the process held when it
\* died (the state that save was writing); never a part, never nothing.
C14_AllOrNothing ==
    [][(up = "down" /\ up' = "loaded") => (tokens' = synced \/ tokens' = tokens)]_vars

\* C15: whenever the process runs, no save_tokens() is in progress in either
\* thread (every mutation made so far has had its save) and no save has
\* failed, DATA_FILE holds the mapping `tokens` holds: loading it gives
\* `tokens` back.
C15_FileEqualsStore ==
    (up = "running" /\ Quiet /\ ~writeFailed) => load_tokens(file) = tokens

\* C16: load_tokens at a start gives, when DATA_FILE holds in full the mapping
\* last saved to it, exactly that mapping (same keys, same field values,
\* same order), and the empty store when the file is missing or holds
\* anything else (a file cut short or overwritten in part); the process
\* goes on to run either way.
C16_LoadTokens ==
    /\ [][(up = "down" /\ up' # "down") =>
            /\ up' = "loaded"
            /\ tokens' = (IF file.exists /\ file.content = Dump(synced) THEN synced ELSE <<>>)]_vars
    /\ [](up = "loaded" => ENABLED Launch)

\* the process has started from a file that held two records in full
C16_Witness ==
    up = "loaded" /\ Len(tokens) = 2 /\ tokens = synced /\ file = save_tokens(tokens)

\* C17: a record whose reversal fired in a tick and whose alert was not
\* delivered is removed in that tick all the same: at the end of the tick it
\* is not stored (so it is not tested, and no delivery is tried for it, in
\* a later tick).
C17_FailedStillRemoved ==
    mpc = "sleep" => \A ca \in Keys(tokens) : ca \notin firedNow \ sentNow

\* C18: a tick is never cut short: the step that ends a tick is the
\* handling of the last asset of the snapshot with nothing waiting in
\* tokens_to_remove, or the removal of the last address of tokens_to_remove
\* (so every asset of the snapshot was processed and every asset that fired
\* was removed, whatever /remove did in between).
C18_TickNeverAborts ==
    [][(mpc # "sleep" /\ mpc' = "sleep") =>
          \/ mpc = "for" /\ Len(snapshot) = 1 /\ tokens_to_remove = <<>>
          \/ mpc = "remove" /\ Len(tokens_to_remove) = 1]_vars

\* C19: a tick handles only records that were stored when it took its
\* snapshot: whenever it handles an item of the snapshot (fetches its
\* price, then lowers the bottom, fires or passes), the record stored under
\* that address, if there is one, is the record of the snapshot and not one
\* stored by /add after the tick started.
C19_SnapshotOnly ==
    [][(mpc = "for" /\ Len(snapshot') < Len(snapshot) /\ Has(tokens, Head(snapshot).ca))
          => Head(snapshot).same]_vars

\* C20: a command received from a user other than ALLOWED_USER_ID (which is
\* not empty) changes nothing but the reply, which is the access-denied
\* message: tokens and DATA_FILE are unchanged, and the handler does not go
\* on to the quote fetch of /add (it stays idle) nor touch the monitor.
C20_AccessRestricted ==
    [][\A user \in Users \ {ALLOWED_USER_ID} :
          (tpc = "idle" /\ Received(user))
              => /\ ALLOWED_USER_ID # ""
                 /\ reply' = "denied"
                 /\ UNCHANGED <<tokens, file, monitorVars, tpc, t_ca, t_arg, t_pct>>
                 /\ UNCHANGED <<historyVars, scriptVars, persistVars>>]_vars

\* a stranger's command was answered with the denial while an asset is tracked
C20_Witness ==
    reply = "denied" /\ tpc = "idle" /\ tokens # <<>>
====
